---- MODULE Spec2Model ----
(***************************************************************************)
(* A model of the two scripts of the repository:                           *)
(*   chatbot.py      loads GEMINI_API_KEY, configures the client, opens    *)
(*                   one chat session and relays input lines to it;        *)
(*   list_models.py  configures the client and prints the models of the    *)
(*                   remote catalog that support 'generateContent'.        *)
(* One behaviour of the model is one run of one of the two scripts.        *)
(* Text is a sequence of one-character strings, so that str.strip() and    *)
(* str.lower() are computed character by character.                        *)
(***************************************************************************)
EXTENDS Integers, Sequences, FiniteSets, TLC

\* ------------------------------------------------------------------ bounds
\* The number of input() calls of one run of the chat client.
MaxReads == 3
\* The number of models of the remote catalog.
MaxCatalog == 3

\* ------------------------------------------------------------- characters
\* Python's None (os.getenv of an unset variable, a handle not yet bound).
None == "<None>"

\* The characters str.strip() removes (str.isspace), among those of the inputs.
WhiteSpace == {" ", "\t"}

\* str.lower() on one character: the cased letters of the inputs.
LowerTable ==
    ("Q" :> "q") @@ ("U" :> "u") @@ ("I" :> "i") @@ ("T" :> "t") @@
    ("E" :> "e") @@ ("X" :> "x") @@ ("B" :> "b") @@ ("Y" :> "y") @@
    ("H" :> "h")

Lower(c) == IF c \in DOMAIN LowerTable THEN LowerTable[c] ELSE c

\* str.lower()
lower(s) == [i \in 1..Len(s) |-> Lower(s[i])]

RECURSIVE lstrip(_)
lstrip(s) ==
    IF s = <<>> THEN s
    ELSE IF Head(s) \in WhiteSpace THEN lstrip(Tail(s)) ELSE s

RECURSIVE rstrip(_)
rstrip(s) ==
    IF s = <<>> THEN s
    ELSE IF s[Len(s)] \in WhiteSpace THEN rstrip(SubSeq(s, 1, Len(s) - 1)) ELSE s

\* A forgotten .strip(): the line is used as read.
stripOmitted(s) == s

\* str.strip(): surrounding whitespace removed, inner whitespace kept.
strip(s) == rstrip(lstrip(s))

\* The exit keywords of the loop: ['quit', 'exit', 'bye'].
EXIT_WORDS ==
    { <<"q", "u", "i", "t">>, <<"e", "x", "i", "t">>, <<"b", "y", "e">> }

\* The exit test without .lower(): only the lower-case spellings leave.
IsExitCaseSensitive(u) == u \in EXIT_WORDS

\* user_input.lower() in ['quit', 'exit', 'bye']
IsExit(u) == lower(u) \in EXIT_WORDS

\* `not user_input`
IsEmpty(u) == u = <<>>

\* `is None` in place of `not`: the empty string passes.
FalsyNoneOnly(v) == v = None

\* `not API_KEY`: None and the empty string are both falsy.
Falsy(v) == v = None \/ v = ""

\* ----------------------------------------------------------------- inputs
\* The upper-case spelling of each cased letter of the inputs.
UpperOf ==
    ("q" :> "Q") @@ ("u" :> "U") @@ ("i" :> "I") @@ ("t" :> "T") @@
    ("e" :> "E") @@ ("x" :> "X") @@ ("b" :> "B") @@ ("y" :> "Y") @@
    ("h" :> "H")

\* Every spelling of the lower-case word w in upper and lower case.
Spellings(w) ==
    { v \in [1..Len(w) -> DOMAIN UpperOf \cup DOMAIN LowerTable] :
        \A i \in 1..Len(w) : v[i] = w[i] \/ v[i] = UpperOf[w[i]] }

\* Whitespace a line may start or end with.
Pads == { <<>>, <<"\t", " ">> }

\* Texts that are neither empty nor an exit keyword: a capitalised word and a
\* keyword split by an inner blank.
OtherWords == { <<"H", "i">>, <<"b", "y", " ", "e">> }

Words == UNION { Spellings(w) : w \in EXIT_WORDS } \cup {<<>>} \cup OtherWords

\* The lines input() may return.
Lines == { pre \o w \o post : pre \in Pads, post \in Pads, w \in Words }

\* What the process environment and the .env file hold for GEMINI_API_KEY.
KeyValues == { None, "", "AIza" }

\* The texts of the replies of the remote model.
Replies == { "reply" }

\* The descriptions of the failures the remote call raises.
Failures == { "503 unavailable", "429 quota" }

\* The description of the ValueError response.text raises on a reply with no text.
NoTextError == "response has no text"

Methods == { "generateContent", "embedContent" }

\* The model descriptors of the remote catalog.
Models ==
    [ name : { "models/a", "models/b" },
      display_name : { "A" },
      supported_generation_methods : SUBSET Methods ]

RECURSIVE SeqsUpTo(_, _)
SeqsUpTo(S, n) ==
    IF n = 0 THEN { <<>> }
    ELSE LET shorter == SeqsUpTo(S, n - 1)
             longest == { r \in shorter : Len(r) = n - 1 }
         IN  shorter \cup { Append(q, x) : q \in longest, x \in S }

Catalogs == SeqsUpTo(Models, MaxCatalog)

\* ------------------------------------------------------------------ state
VARIABLES
    script,        \* which script this run executes
    pc,            \* where the run is
    exc,           \* the uncaught exception that ended the run, or None
    API_KEY,       \* the value os.getenv('GEMINI_API_KEY') returned
    configured,    \* the api_key genai.configure was called with
    model,         \* chatbot: whether the GenerativeModel handle is built
    sessions,      \* chatbot: the number of start_chat calls
    chat_session,  \* chatbot: the session handle of the loop
    prompts,       \* chatbot: the number of input() calls
    reads,         \* chatbot: the number of lines input() returned
    line,          \* chatbot: the line the last input() returned
    user_input,    \* chatbot: that line stripped
    sent,          \* chatbot: the send_message calls, <<session, text>> each
    result,        \* how the last remote call ended
    out,           \* what was printed
    catalog,       \* lister: the catalog of the remote service
    idx,           \* lister: the number of models the loop has taken
    listCalls      \* lister: the number of list_models calls

vars ==
    << script, pc, exc, API_KEY, configured, model, sessions, chat_session,
       prompts, reads, line, user_input, sent, result, out, catalog, idx,
       listCalls >>

Init ==
    /\ script \in { "chatbot", "list_models" }
    /\ pc = "start"
    /\ exc = None
    /\ API_KEY = None
    /\ configured = None
    /\ model = FALSE
    /\ sessions = 0
    /\ chat_session = 0
    /\ prompts = 0
    /\ reads = 0
    /\ line = <<>>
    /\ user_input = <<>>
    /\ sent = <<>>
    /\ result = <<"none">>
    /\ out = <<>>
    /\ catalog \in (IF script = "list_models" THEN Catalogs ELSE { <<>> })
    /\ idx = 0
    /\ listCalls = 0

\* load_dotenv() and os.getenv: a variable of the environment is kept, the
\* .env file fills in one the environment does not set.
GetKey(environ, dotenv) == IF environ # None THEN environ ELSE dotenv

\* ------------------------------------------------------- chatbot.py, load
\* The module level of chatbot.py: the key is read and checked, the client is
\* configured and the model handle built.
ModuleInit ==
    /\ script = "chatbot"
    /\ pc = "start"
    /\ \E environ \in KeyValues, dotenv \in KeyValues :
         LET key == GetKey(environ, dotenv)
         IN  /\ API_KEY' = key
             /\ IF Falsy(key)
                   THEN /\ pc' = "Aborted"
                        /\ exc' = "ValueError"
                        /\ UNCHANGED << configured, model >>
                   ELSE /\ pc' = "main"
                        /\ configured' = key
                        /\ model' = TRUE
                        /\ exc' = exc
    /\ UNCHANGED << script, sessions, chat_session, prompts, reads, line,
                    user_input,
                    sent, result, out, catalog, idx, listCalls >>

\* chat() up to the loop: the banner, then the one start_chat(history=[]).
ChatStart ==
    /\ script = "chatbot"
    /\ pc = "main"
    /\ out' = out \o << <<"banner">> >>
    /\ sessions' = sessions + 1
    /\ chat_session' = sessions + 1
    /\ pc' = "Running"
    /\ UNCHANGED << script, exc, API_KEY, configured, model, prompts, reads,
                    line, user_input, sent, result, catalog, idx, listCalls >>

\* ------------------------------------------------------- chatbot.py, loop
\* The loop may read while it is Running; the model follows MaxReads reads.
CanRead ==
    /\ script = "chatbot"
    /\ pc = "Running"
    /\ prompts < MaxReads

\* user_input = input("\nYou: ").strip(), input() returning the line l.
Read(l) ==
    /\ prompts' = prompts + 1
    /\ reads' = reads + 1
    /\ line' = l
    /\ user_input' = strip(l)

\* The error line without the description of the failure.
ErrorLineGeneric(e) == <<"Error", "request failed">>

\* print(f"\nError: {e}")
ErrorLine(e) == <<"Error", e>>

\* print(f"\nBot: {response.text}")
BotLine(text) == <<"Bot", text>>

\* The text sent in lower case, as the exit test sees it.
SendLowered(u) == sent' = Append(sent, <<chat_session, lower(u)>>)

\* chat_session.send_message(user_input): the call as the remote side sees it.
Send(u) == sent' = Append(sent, <<chat_session, u>>)

\* input() at end of input: EOFError, raised outside the try, ends the run.
ReadEOF ==
    /\ CanRead
    /\ prompts' = prompts + 1
    /\ pc' = "Aborted"
    /\ exc' = "EOFError"
    /\ UNCHANGED << script, API_KEY, configured, model, sessions, chat_session,
                    reads, line, user_input, sent, result, out, catalog, idx,
                    listCalls >>

\* input() interrupted: KeyboardInterrupt ends the run.
ReadInterrupt ==
    /\ CanRead
    /\ prompts' = prompts + 1
    /\ pc' = "Aborted"
    /\ exc' = "KeyboardInterrupt"
    /\ UNCHANGED << script, API_KEY, configured, model, sessions, chat_session,
                    reads, line, user_input, sent, result, out, catalog, idx,
                    listCalls >>

\* An exit keyword: the farewell, then break; chat() returns and the run ends.
TurnExit ==
    /\ CanRead
    /\ \E l \in Lines :
         /\ IsExit(strip(l))
         /\ Read(l)
    /\ out' = Append(out, <<"Goodbye!">>)
    /\ pc' = "Terminated"
    /\ UNCHANGED << script, exc, API_KEY, configured, model, sessions,
                    chat_session, sent, result, catalog, idx, listCalls >>

\* An empty user_input: continue.
TurnEmpty ==
    /\ CanRead
    /\ \E l \in Lines :
         /\ ~IsExit(strip(l))
         /\ IsEmpty(strip(l))
         /\ Read(l)
    /\ UNCHANGED << script, pc, exc, API_KEY, configured, model, sessions,
                    chat_session, sent, result, out, catalog, idx, listCalls >>

\* The except branch taken twice: the call is issued again after a failure.
TurnErrorRetried ==
    /\ CanRead
    /\ \E l \in Lines, e \in Failures :
         /\ ~IsExit(strip(l))
         /\ ~IsEmpty(strip(l))
         /\ Read(l)
         /\ sent' = sent \o << <<chat_session, strip(l)>>, <<chat_session, strip(l)>> >>
         /\ result' = <<"raise", e>>
         /\ out' = Append(out, ErrorLine(e))
    /\ UNCHANGED << script, pc, exc, API_KEY, configured, model, sessions,
                    chat_session, catalog, idx, listCalls >>

\* The loop without its try: the failure of the call ends the run.
TurnErrorUncaught ==
    /\ CanRead
    /\ \E l \in Lines, e \in Failures :
         /\ ~IsExit(strip(l))
         /\ ~IsEmpty(strip(l))
         /\ Read(l)
         /\ Send(strip(l))
         /\ result' = <<"raise", e>>
    /\ pc' = "Aborted"
    /\ exc' = "Exception"
    /\ UNCHANGED << script, API_KEY, configured, model, sessions,
                    chat_session, out, catalog, idx, listCalls >>

\* A turn whose call returns a response with text: the reply is printed.
TurnReply ==
    /\ CanRead
    /\ \E l \in Lines, text \in Replies :
         /\ ~IsExit(strip(l))
         /\ ~IsEmpty(strip(l))
         /\ Read(l)
         /\ Send(strip(l))
         /\ result' = <<"ok", text>>
         /\ out' = Append(out, BotLine(text))
    /\ UNCHANGED << script, pc, exc, API_KEY, configured, model, sessions,
                    chat_session, catalog, idx, listCalls >>

\* A turn whose call returns a response without text: response.text raises
\* inside the try, before print is called, and the except branch reports it.
TurnNoText ==
    /\ CanRead
    /\ \E l \in Lines :
         /\ ~IsExit(strip(l))
         /\ ~IsEmpty(strip(l))
         /\ Read(l)
         /\ Send(strip(l))
         /\ result' = <<"notext", NoTextError>>
         /\ out' = Append(out, ErrorLine(NoTextError))
    /\ UNCHANGED << script, pc, exc, API_KEY, configured, model, sessions,
                    chat_session, catalog, idx, listCalls >>

\* A turn whose call raises an Exception: caught, reported, the loop goes on.
TurnError ==
    /\ CanRead
    /\ \E l \in Lines, e \in Failures :
         /\ ~IsExit(strip(l))
         /\ ~IsEmpty(strip(l))
         /\ Read(l)
         /\ Send(strip(l))
         /\ result' = <<"raise", e>>
         /\ out' = Append(out, ErrorLine(e))
    /\ UNCHANGED << script, pc, exc, API_KEY, configured, model, sessions,
                    chat_session, catalog, idx, listCalls >>

\* A turn interrupted during the call: KeyboardInterrupt is no Exception, the
\* except branch does not take it and the run ends.
TurnInterrupt ==
    /\ CanRead
    /\ \E l \in Lines :
         /\ ~IsExit(strip(l))
         /\ ~IsEmpty(strip(l))
         /\ Read(l)
         /\ Send(strip(l))
         /\ result' = <<"interrupt">>
    /\ pc' = "Aborted"
    /\ exc' = "KeyboardInterrupt"
    /\ UNCHANGED << script, API_KEY, configured, model, sessions,
                    chat_session, out, catalog, idx, listCalls >>

\* ---------------------------------------------------------- list_models.py
\* print(f"Name: ..."), print(f"Display: ..."), print(f"Methods: ..."),
\* print("-" * 50)
Block(m) == <<"block", m.name, m.display_name, m.supported_generation_methods>>

\* The filter left out: every model is listed.
SupportsAnything(m) == TRUE

\* 'generateContent' in model.supported_generation_methods
Supports(m) == "generateContent" \in m.supported_generation_methods

\* The script up to the loop: the key is read and passed on unchecked, the
\* header is printed and list_models() is called.
ListerStart ==
    /\ script = "list_models"
    /\ pc = "start"
    /\ \E environ \in KeyValues, dotenv \in KeyValues :
         /\ API_KEY' = GetKey(environ, dotenv)
         /\ configured' = GetKey(environ, dotenv)
    /\ out' = out \o << <<"header">> >>
    /\ listCalls' = listCalls + 1
    /\ pc' = "Listing"
    /\ UNCHANGED << script, exc, model, sessions, chat_session, prompts, reads,
                    line,                     user_input, sent, result, catalog, idx >>

\* A failure of the enumeration that the loop survives: the model is skipped.
ListerFailSkipped ==
    /\ script = "list_models"
    /\ pc = "Listing"
    /\ idx < Len(catalog)
    /\ idx' = idx + 1
    /\ \E e \in Failures : result' = <<"raise", e>>
    /\ UNCHANGED << script, pc, exc, API_KEY, configured, model, sessions,
                    chat_session, prompts, reads, line, user_input, sent, out,
                    catalog, listCalls >>

\* One iteration of the for loop: the next model, printed if it is capable.
ListerNext ==
    /\ script = "list_models"
    /\ pc = "Listing"
    /\ idx < Len(catalog)
    /\ idx' = idx + 1
    /\ out' = IF Supports(catalog[idx + 1])
                 THEN Append(out, Block(catalog[idx + 1]))
                 ELSE out
    /\ UNCHANGED << script, pc, exc, API_KEY, configured, model, sessions,
                    chat_session, prompts, reads, line, user_input, sent, result,
                    catalog, listCalls >>

\* The remote call fails, at the fetch or in the middle of the enumeration:
\* nothing catches it and the run ends.
ListerFail ==
    /\ script = "list_models"
    /\ pc = "Listing"
    /\ \E e \in Failures : result' = <<"raise", e>>
    /\ pc' = "Aborted"
    /\ exc' = "Exception"
    /\ UNCHANGED << script, API_KEY, configured, model, sessions, chat_session,
                    prompts, reads, line, user_input, sent, out, catalog, idx,
                    listCalls >>

\* The enumeration is exhausted: the script ends.
ListerDone ==
    /\ script = "list_models"
    /\ pc = "Listing"
    /\ idx = Len(catalog)
    /\ pc' = "Done"
    /\ UNCHANGED << script, exc, API_KEY, configured, model, sessions,
                    chat_session, prompts, reads, line, user_input, sent, result, out,
                    catalog, idx, listCalls >>

\* ---------------------------------------------------------- specification
Next ==
    \/ ModuleInit
    \/ ChatStart
    \/ ReadEOF
    \/ ReadInterrupt
    \/ TurnExit
    \/ TurnEmpty
    \/ TurnReply
    \/ TurnNoText
    \/ TurnError
    \/ TurnInterrupt
    \/ ListerStart
    \/ ListerNext
    \/ ListerFail
    \/ ListerDone

Spec == Init /\ [][Next]_vars

\* ------------------------------------------------- the terms of the claims
\* The claims speak of lines, not of the code's operators: a line trimmed of
\* its surrounding whitespace, and equality up to the case of the letters.

\* The ways to cut line l into leading whitespace, a core and trailing
\* whitespace, the core neither starting nor ending with whitespace.
Cuts(l) ==
    { c \in (0..Len(l)) \X (0..Len(l)) :
        /\ c[1] + c[2] <= Len(l)
        /\ \A k \in 1..c[1] : l[k] \in {" ", "\t"}
        /\ \A k \in (Len(l) - c[2] + 1)..Len(l) : l[k] \in {" ", "\t"}
        /\ \/ c[1] + c[2] = Len(l)
           \/ /\ l[c[1] + 1] \notin {" ", "\t"}
              /\ l[Len(l) - c[2]] \notin {" ", "\t"} }

Trimmed(l) ==
    LET c == CHOOSE c \in Cuts(l) : TRUE
    IN  SubSeq(l, c[1] + 1, Len(l) - c[2])

Blank(l) == \A k \in 1..Len(l) : l[k] \in {" ", "\t"}

Keywords == { <<"q", "u", "i", "t">>, <<"e", "x", "i", "t">>, <<"b", "y", "e">> }

SameWord(w, kw) ==
    /\ Len(w) = Len(kw)
    /\ \A k \in 1..Len(kw) : w[k] = kw[k] \/ w[k] = UpperOf[kw[k]]

ExitLine(l) == \E kw \in Keywords : SameWord(Trimmed(l), kw)

Sendable(l) == ~Blank(l) /\ ~ExitLine(l)

\* This step is an iteration of the loop in which input() returned a line.
LineRead == script = "chatbot" /\ reads' = reads + 1

\* No step leaves a run that has ended.
Halted == pc \in { "Terminated", "Aborted", "Done" } => UNCHANGED vars

\* ---------------------------------------------------------------- claim C1
\* C1: an iteration whose line, trimmed, is 'quit', 'exit' or 'bye' in any
\* case prints the farewell and ends the loop, and issues no send_message.
C1_ExitKeyword ==
    [][ (LineRead /\ ExitLine(line')) =>
          /\ out' = Append(out, <<"Goodbye!">>)
          /\ pc' = "Terminated"
          /\ exc' = None
          /\ sent' = sent ]_vars

\* An upper-case, padded keyword ended a loop that had sent a text.
C1_Witness ==
    /\ pc = "Terminated"
    /\ line = <<"\t", " ", "Q", "U", "I", "T", "\t", " ">>
    /\ Len(sent) = 1
    /\ out[Len(out)] = <<"Goodbye!">>

\* ---------------------------------------------------------------- claim C2
\* C2: an iteration whose line is empty or all whitespace issues no call,
\* prints nothing, leaves the session as it is and leaves the loop Running.
C2_BlankLine ==
    [][ (LineRead /\ Blank(line')) =>
          /\ sent' = sent
          /\ out' = out
          /\ result' = result
          /\ chat_session' = chat_session
          /\ sessions' = sessions
          /\ pc' = "Running"
          /\ exc' = None ]_vars

\* A whitespace-only line was read after a turn, and the loop is Running.
C2_Witness ==
    /\ pc = "Running"
    /\ line = <<"\t", " ">>
    /\ user_input = <<>>
    /\ reads = 2
    /\ Len(sent) = 1
    /\ Len(out) = 2

\* ---------------------------------------------------------------- claim C3
\* Exactly one line was added to what is printed, a reply or an error.
OneLinePrinted ==
    /\ Len(out') = Len(out) + 1
    /\ SubSeq(out', 1, Len(out)) = out
    /\ out'[Len(out')][1] \in { "Bot", "Error" }

\* Exactly one send_message call was issued, with the trimmed line.
OneCallIssued == sent' = Append(sent, <<chat_session, Trimmed(line')>>)

\* C3 as stated: an iteration whose line, trimmed, is neither empty nor an
\* exit keyword issues exactly one send_message call and prints exactly one
\* line, a reply or an error.
C3_AsStated ==
    [][ (LineRead /\ Sendable(line')) => (OneCallIssued /\ OneLinePrinted) ]_vars

\* C3 as amended: such an iteration issues exactly one send_message call; it
\* prints exactly one line, a reply or an error, unless the call is
\* interrupted, and then it prints nothing and the run ends.
C3_OneCallOneLine ==
    [][ (LineRead /\ Sendable(line')) =>
          /\ OneCallIssued
          /\ IF result'[1] = "interrupt"
                THEN out' = out /\ pc' = "Aborted" /\ exc' = "KeyboardInterrupt"
                ELSE OneLinePrinted /\ pc' = "Running" /\ exc' = None ]_vars

\* Two turns, one answered by a reply and one by an error.
C3_Witness ==
    /\ pc = "Running"
    /\ Len(sent) = 2
    /\ Len(out) = 3
    /\ out[2][1] = "Bot"
    /\ out[3][1] = "Error"

\* ---------------------------------------------------------------- claim C4
\* C4: in both scripts a missing GEMINI_API_KEY ends the run with a
\* configuration error before start_chat, send_message or list_models.
C4_MissingKeyFailsFast ==
    (pc # "start" /\ API_KEY = None) =>
        /\ pc = "Aborted"
        /\ exc = "ValueError"
        /\ sessions = 0
        /\ sent = <<>>
        /\ listCalls = 0

\* ---------------------------------------------------------------- claim C5
\* C5: a turn whose call raises is caught: the error line with the failure's
\* description is printed, the loop stays Running, and the session handle is
\* the one every call, before and after, goes to.
C5_FailureCaught ==
    /\ [][ (LineRead /\ sent' # sent /\ result'[1] = "raise") =>
             /\ out' = Append(out, <<"Error", result'[2]>>)
             /\ pc' = "Running"
             /\ exc' = None
             /\ chat_session' = chat_session
             /\ sessions' = sessions ]_vars
    /\ [](\A k \in 1..Len(sent) : sent[k][1] = 1 /\ chat_session = 1)

\* A failed turn, reported with its description, then an answered turn.
C5_Witness ==
    /\ pc = "Running"
    /\ Len(sent) = 2
    /\ out[2] = <<"Error", "429 quota">>
    /\ out[3][1] = "Bot"

\* ---------------------------------------------------------------- claim C6
\* C6 as stated: from Running the loop moves to Terminated only on an exit
\* keyword, and every other event, end of input and interrupts included,
\* leaves it Running.
C6_AsStated ==
    [][ (script = "chatbot" /\ pc = "Running") =>
          \/ pc' = "Running"
          \/ pc' = "Terminated" /\ LineRead /\ ExitLine(line') ]_vars

\* C6 as amended: from Running the loop moves to Terminated exactly on an
\* exit keyword; an empty line, an answered turn and a failed turn leave it
\* Running; end of input and an interrupt, while reading or sending, end the
\* run with EOFError or KeyboardInterrupt uncaught; an ended run stays ended.
C6_LoopStates ==
    [][ /\ (script = "chatbot" /\ pc = "Running") =>
             /\ pc' \in { "Running", "Terminated", "Aborted" }
             /\ pc' = "Terminated" <=> (LineRead /\ ExitLine(line'))
             /\ pc' = "Aborted" <=>
                  \/ reads' = reads /\ exc' \in { "EOFError", "KeyboardInterrupt" }
                  \/ LineRead /\ sent' # sent /\ result'[1] = "interrupt"
                       /\ exc' = "KeyboardInterrupt"
             /\ pc' = "Running" => exc' = None
        /\ (script = "chatbot" => Halted) ]_vars

\* End of input ended a run that had caught a failed turn.
C6_Witness ==
    /\ pc = "Aborted"
    /\ exc = "EOFError"
    /\ reads = 2
    /\ Len(sent) = 1
    /\ result[1] = "raise"
    /\ out[2][1] = "Error"
    /\ line = <<>>

\* ---------------------------------------------------------------- claim C7
IsCapable(m) == "generateContent" \in m.supported_generation_methods

RECURSIVE CapableBlocks(_)
CapableBlocks(models) ==
    IF models = <<>> THEN <<>>
    ELSE LET m == Head(models)
             rest == CapableBlocks(Tail(models))
         IN  IF IsCapable(m)
                THEN << <<"block", m.name, m.display_name,
                          m.supported_generation_methods>> >> \o rest
                ELSE rest

\* C7: when the enumeration of the catalog ends, the blocks printed are those
\* of the models supporting 'generateContent', one each, in catalog order.
C7_BlocksOfCapableModels ==
    (script = "list_models" /\ pc = "Done") =>
        /\ out = << <<"header">> >> \o CapableBlocks(catalog)
        /\ Len(out) - 1 = Cardinality({ k \in 1..Len(catalog) : IsCapable(catalog[k]) })

\* A catalog of three models, two of them capable, listed to its end.
C7_Witness ==
    /\ script = "list_models"
    /\ pc = "Done"
    /\ Len(catalog) = 3
    /\ IsCapable(catalog[1])
    /\ ~IsCapable(catalog[2])
    /\ IsCapable(catalog[3])
    /\ catalog[1].name # catalog[3].name
    /\ Len(out) = 3

\* ---------------------------------------------------------------- claim C8
\* C8: a failure of the remote call of the lister, at the fetch or during the
\* enumeration, ends the run uncaught: what was printed stays as it is, no
\* block follows, and list_models is not called again.
C8_ListerFailureEndsRun ==
    [][ script = "list_models" =>
          /\ (result' # result /\ result'[1] = "raise") =>
                /\ pc' = "Aborted"
                /\ exc' = "Exception"
                /\ out' = out
                /\ idx' = idx
                /\ listCalls' = listCalls
          /\ (pc' = "Aborted" \/ pc = "Aborted") =>
                /\ out' = out
                /\ listCalls' = listCalls
          /\ Halted ]_vars

\* The enumeration failed after one block, a capable model still to come.
C8_Witness ==
    /\ script = "list_models"
    /\ pc = "Aborted"
    /\ exc = "Exception"
    /\ idx = 1
    /\ Len(catalog) = 2
    /\ IsCapable(catalog[1])
    /\ IsCapable(catalog[2])
    /\ Len(out) = 2
    /\ listCalls = 1

\* ---------------------------------------------------------------- claim C9
\* C9: one session is opened, before the first prompt and with nothing sent;
\* each line read adds its trimmed text to the texts sent to that session if
\* it is neither empty nor an exit keyword, and adds nothing otherwise; and
\* after an exit keyword nothing is read or sent.
C9_OneSessionInOrder ==
    /\ []( script = "chatbot" =>
             /\ pc \in { "start", "main" } => sessions = 0 /\ prompts = 0
             /\ pc \in { "Running", "Terminated" } => sessions = 1 /\ chat_session = 1
             /\ prompts > 0 => sessions = 1
             /\ reads = 0 => sent = <<>>
             /\ pc = "Terminated" => ExitLine(line) )
    /\ [][ script = "chatbot" =>
             /\ sent' = IF LineRead /\ Sendable(line')
                           THEN Append(sent, <<1, Trimmed(line')>>)
                           ELSE sent
             /\ pc = "Terminated" => UNCHANGED << reads, prompts, sent, sessions >>
           ]_vars

\* Two different texts were sent, in the order read, before the exit keyword.
C9_Witness ==
    /\ pc = "Terminated"
    /\ reads = 3
    /\ sent = << <<1, <<"b", "y", " ", "e">> >>, <<1, <<"H", "i">> >> >>
    /\ line = <<"E", "x", "i", "T", "\t", " ">>

\* --------------------------------------------------------------- claim C10
\* C10: the chat client ends with ValueError on a key that is missing or
\* empty, before configure, the model handle or the session; the lister
\* passes whatever it read to configure and calls list_models.
C10_KeyChecks ==
    /\ (script = "chatbot" /\ pc # "start") =>
          IF API_KEY = None \/ API_KEY = ""
             THEN /\ pc = "Aborted"
                  /\ exc = "ValueError"
                  /\ configured = None
                  /\ ~model
                  /\ sessions = 0
                  /\ sent = <<>>
             ELSE configured = API_KEY /\ model /\ exc # "ValueError"
    /\ (script = "list_models" /\ pc # "start") =>
          /\ configured = API_KEY
          /\ listCalls = 1
          /\ exc # "ValueError"

\* The chat client stopped on a key that is set but empty.
C10_Witness ==
    /\ script = "chatbot"
    /\ pc = "Aborted"
    /\ API_KEY = ""

====
